---------------------------- MODULE Spec2Model ----------------------------
(***************************************************************************)
(* Model of aquatan-ble-classifier.                                        *)
(*                                                                         *)
(*   Spec        the polling loop of classify.py (__main__): the           *)
(*               prediction_dict debounce and the beacon_status writes.    *)
(*   WindowSpec  the window aggregator of window.py (window_data and       *)
(*               create_record) run over a bounded observation file.       *)
(*                                                                         *)
(* Proximity aggregates are exact rationals <<numerator, denominator>> in  *)
(* lowest terms; the classifier is an arbitrary function from the fetched  *)
(* rows of a beacon to a place.                                            *)
(***************************************************************************)
EXTENDS Integers, Sequences, FiniteSets, TLC

VARIABLES
    \* ---- classify.py ----
    pc,               \* position of __main__: start, reset, fetch, persist, sleep, error
    update,           \* args.update
    user_df,          \* labels of the ble_tag table, read once at startup
    prediction_dict,  \* ble_id -> Prediction(place, times, flag)
    beacon_status,    \* the persisted table: label -> place
    labels,           \* labels that had rows in the cycle's fetched df
    upserted,         \* <<ble_id, place>> of the QUERY_FOR_UPSERT run in this cycle
    deleted,          \* ble_id of the QUERY_FOR_DELETE run in this cycle
    hist,             \* per beacon, its classification in the last three cycles
    silent_run,       \* per beacon, cycles of silence since it was last classified
    deletes_since_seen, \* per beacon, QUERY_FOR_DELETE run since it was last classified
    prev_times,       \* per beacon, times of its entry when the cycle fetched (0: no entry)
    \* ---- window.py ----
    wpc,              \* position of window.py: read, done
    original_df,      \* rows of the input file, in file order
    args,             \* the arguments window_data was called with
    windows,          \* the windowed_df handed to create_record, in call order
    created,          \* the records create_record returned, in call order
    result_df         \* rows of result_df

pollVars == <<pc, update, user_df, prediction_dict, beacon_status, labels,
              upserted, deleted, hist, silent_run, deletes_since_seen, prev_times>>
windowVars == <<wpc, original_df, args, windows, created, result_df>>
vars == <<pollVars, windowVars>>

\* ------------------------------------------------------------------------
\* Bounds
\* ------------------------------------------------------------------------
NumBeacons == 3     \* labels 1..NumBeacons occur in room_log
NumPlaces == 2      \* the classifier answers one of the first NumPlaces places
MaxRows == 4        \* rows of the input file of window.py
CatalogLen == 2     \* the catalog is the first CatalogLen entries of DETECTORS

Min(a, b) == IF a <= b THEN a ELSE b

\* ------------------------------------------------------------------------
\* classify.py: the polling loop
\* ------------------------------------------------------------------------
PLACES == <<"8-302", "8-303", "8-320", "8-322", "8-417">>

Places == {PLACES[i] : i \in 1..Min(NumPlaces, Len(PLACES))}

Beacons == 1..NumBeacons

\* ble_tag holds the odd labels; the even ones are unregistered tags.
AccountLabels == {b \in Beacons : b % 2 = 1}

Silent == "silent"

Prediction(place, times, flag) == [place |-> place, times |-> times, flag |-> flag]

NoRows == [b \in {} |-> Silent]

Tables == UNION {[S -> Places] : S \in SUBSET Beacons}

\* line 167: a label that is not in user_df is skipped
account_filter_off(ble_id, accounts) == FALSE

account_filter(ble_id, accounts) == ble_id \notin accounts

\* line 190: times = min(3, times + 1)
next_times_cap2(times) == Min(2, times + 1)

next_times(times) == Min(3, times + 1)

\* lines 189-192: the update of one beacon's entry
record_prediction_no_reset(dict, ble_id, place) ==
    IF ble_id \in DOMAIN dict
    THEN [dict EXCEPT ![ble_id] = Prediction(place, next_times(dict[ble_id].times), TRUE)]
    ELSE [b \in DOMAIN dict \cup {ble_id} |->
            IF b = ble_id THEN Prediction(place, 1, TRUE) ELSE dict[b]]

record_prediction(dict, ble_id, place) ==
    IF ble_id \in DOMAIN dict /\ dict[ble_id].place = place
    THEN [dict EXCEPT ![ble_id] = Prediction(place, next_times(dict[ble_id].times), TRUE)]
    ELSE [b \in DOMAIN dict \cup {ble_id} |->
            IF b = ble_id THEN Prediction(place, 1, TRUE) ELSE dict[b]]

\* lines 165-192: df.groupby("label") visits the labels in ascending order
RECURSIVE process_groups(_, _, _, _)
process_groups(dict, todo, y, accounts) ==
    IF todo = {} THEN dict
    ELSE LET ble_id == CHOOSE b \in todo : \A c \in todo : b <= c
         IN  IF account_filter(ble_id, accounts)
             THEN process_groups(dict, todo \ {ble_id}, y, accounts)
             ELSE process_groups(record_prediction(dict, ble_id, y[ble_id]),
                                 todo \ {ble_id}, y, accounts)

\* line 205
upsert_condition_seen(prediction) == prediction.flag

upsert_condition_no_flag(prediction) == prediction.times = 3

upsert_condition_early(prediction) == prediction.flag /\ prediction.times >= 2

upsert_condition(prediction) == prediction.flag /\ prediction.times = 3

\* line 209
delete_condition(prediction) == ~prediction.flag

\* lines 151-153
reset_flags_off(dict) == dict

reset_flags(dict) == [b \in DOMAIN dict |-> [dict[b] EXCEPT !.flag = FALSE]]

\* lines 214-215
pop_dropped_off(dict, drop_ble_ids) == dict

pop_dropped(dict, drop_ble_ids) == [b \in DOMAIN dict \ drop_ble_ids |-> dict[b]]

\* what the cycle classified beacon b as, Silent when it got no prediction;
\* y holds the answer of the classifier for every label it was called for
Classified(b, y) == IF b \in DOMAIN y THEN y[b] ELSE Silent

\* line 147: QUERY_FOR_ALLDELETE
startup_delete_off(table) == table

startup_delete(table) == NoRows

\* lines 141-147: read the accounts; with --update create the dictionary and
\* empty beacon_status
Start ==
    /\ pc = "start"
    /\ pc' = "reset"
    /\ beacon_status' = IF update THEN startup_delete(beacon_status) ELSE beacon_status
    /\ UNCHANGED <<update, user_df, prediction_dict, labels, upserted, deleted,
                   hist, silent_run, deletes_since_seen, prev_times>>
    /\ UNCHANGED windowVars

\* lines 150-153: the head of the loop. Without --update the name
\* prediction_dict was never bound and the for statement raises NameError.
ResetFlags ==
    /\ pc = "reset"
    /\ IF update
       THEN /\ prediction_dict' = reset_flags(prediction_dict)
            /\ pc' = "fetch"
       ELSE /\ pc' = "error"
            /\ UNCHANGED prediction_dict
    /\ upserted' = {}
    /\ deleted' = {}
    /\ prev_times' = [b \in Beacons |-> 0]
    /\ UNCHANGED <<update, user_df, beacon_status, labels, hist, silent_run,
                   deletes_since_seen>>
    /\ UNCHANGED windowVars

\* lines 155-198: fetch the rows of the last time_window seconds and classify
\* every label that has rows and passes the account filter
FetchAndClassify ==
    /\ pc = "fetch"
    /\ \E fetched \in SUBSET Beacons :
         \E y \in [{b \in fetched : ~account_filter(b, user_df)} -> Places] :
            /\ labels' = fetched
            /\ prediction_dict' =
                 IF update THEN process_groups(prediction_dict, fetched, y, user_df)
                 ELSE prediction_dict
            /\ hist' = [b \in Beacons |->
                          <<hist[b][2], hist[b][3], Classified(b, y)>>]
            /\ silent_run' = [b \in Beacons |->
                          IF Classified(b, y) # Silent THEN 0
                          ELSE IF silent_run[b] = -1 THEN -1
                          ELSE Min(2, silent_run[b] + 1)]
            /\ deletes_since_seen' = [b \in Beacons |->
                          IF Classified(b, y) # Silent THEN 0
                          ELSE deletes_since_seen[b]]
            /\ prev_times' = [b \in Beacons |->
                          IF b \in DOMAIN prediction_dict
                          THEN prediction_dict[b].times ELSE 0]
    /\ pc' = "persist"
    /\ UNCHANGED <<update, user_df, beacon_status, upserted, deleted>>
    /\ UNCHANGED windowVars

\* lines 200-215: upsert the confirmed entries, delete and pop the unseen ones
Persist ==
    /\ pc = "persist"
    /\ IF update
       THEN LET ups == {b \in DOMAIN prediction_dict : upsert_condition(prediction_dict[b])}
                drop_ble_ids == {b \in DOMAIN prediction_dict :
                                    delete_condition(prediction_dict[b])}
            IN  /\ upserted' = {<<b, prediction_dict[b].place>> : b \in ups}
                /\ deleted' = drop_ble_ids
                /\ beacon_status' =
                     [b \in ((DOMAIN beacon_status) \cup ups) \ drop_ble_ids |->
                        IF b \in ups THEN prediction_dict[b].place ELSE beacon_status[b]]
                /\ prediction_dict' = pop_dropped(prediction_dict, drop_ble_ids)
                /\ deletes_since_seen' = [b \in Beacons |->
                        IF b \in drop_ble_ids THEN Min(2, deletes_since_seen[b] + 1)
                        ELSE deletes_since_seen[b]]
       ELSE UNCHANGED <<upserted, deleted, beacon_status, prediction_dict,
                        deletes_since_seen>>
    /\ pc' = "sleep"
    /\ UNCHANGED <<update, user_df, labels, hist, silent_run, prev_times>>
    /\ UNCHANGED windowVars

\* line 218
Sleep ==
    /\ pc = "sleep"
    /\ pc' = "reset"
    /\ UNCHANGED <<update, user_df, prediction_dict, beacon_status, labels,
                   upserted, deleted, hist, silent_run, deletes_since_seen,
                   prev_times>>
    /\ UNCHANGED windowVars

WindowIdle ==
    /\ wpc = "done"
    /\ original_df = <<>>
    /\ args = [time_window |-> 0]
    /\ windows = <<>>
    /\ created = <<>>
    /\ result_df = <<>>

Init ==
    /\ pc = "start"
    /\ update \in BOOLEAN
    /\ user_df = AccountLabels
    /\ prediction_dict = NoRows
    /\ beacon_status \in Tables
    /\ labels = {}
    /\ upserted = {}
    /\ deleted = {}
    /\ hist = [b \in Beacons |-> <<Silent, Silent, Silent>>]
    /\ silent_run = [b \in Beacons |-> -1]
    /\ deletes_since_seen = [b \in Beacons |-> 0]
    /\ prev_times = [b \in Beacons |-> 0]
    /\ WindowIdle

Next ==
    \/ Start
    \/ ResetFlags
    \/ FetchAndClassify
    \/ Persist
    \/ Sleep

Spec == Init /\ [][Next]_vars


\* ------------------------------------------------------------------------
\* window.py: the window aggregator
\* ------------------------------------------------------------------------
DETECTORS == <<
    <<"8-302", "0">>, <<"8-302", "1">>,
    <<"8-303", "0">>, <<"8-303", "1">>,
    <<"8-320", "0">>, <<"8-320", "1">>,
    <<"8-322", "0">>, <<"8-322", "1">>,
    <<"8-417", "0">> >>

\* the catalog the model runs with: a prefix of DETECTORS
Catalog == SubSeq(DETECTORS, 1, Min(CatalogLen, Len(DETECTORS)))

VALUE_IF_UNDETECTED == 300

VALUE_IF_UNDETECTED_BOXCOX == 10

\* f"{place}-{detector}"
Key(place, detector) == place \o "-" \o detector

CatalogKeys == {Key(Catalog[i][1], Catalog[i][2]) : i \in DOMAIN Catalog}

\* HEADER = "label,ble_id," + the catalog keys
HEADER == {"label", "ble_id"} \cup CatalogKeys

RECURSIVE GCD(_, _)
GCD(a, b) == IF b = 0 THEN a ELSE GCD(b, a % b)

\* the rational n / d in lowest terms (n >= 0, d > 0)
Frac(n, d) == <<n \div GCD(n, d), d \div GCD(n, d)>>

Row(ble_id, timestamp, place, detector, proxi) ==
    [label |-> "8-302", ble_id |-> ble_id, timestamp |-> timestamp,
     place |-> place, detector |-> detector, proxi |-> proxi]

\* the rows an input file is made of: four readings of beacon 1 by detector
\* (8-302, 0), one by a detector that is in no catalog, and one reading of
\* beacon 2
RowChoices ==
    { Row(1, 0, "8-302", "0", 50), Row(1, 2, "8-302", "0", 60),
      Row(1, 3, "8-302", "0", 70), Row(1, 4, "8-302", "0", 50),
      Row(1, 3, "8-999", "0", 90), Row(2, 0, "8-302", "0", 50) }

TimeWindows == {4}

\* args.ble_ids_filter: None, or a list of ids
None == [given |-> FALSE, ids |-> {}]

FilterChoices == {None, [given |-> TRUE, ids |-> {1}]}

\* Series.sum()
RECURSIVE Sum(_)
Sum(series) == IF series = <<>> THEN 0 ELSE Head(series) + Sum(Tail(series))

MaxTimestamp(df) ==
    CHOOSE t \in {df[i].timestamp : i \in DOMAIN df} :
        \A i \in DOMAIN df : df[i].timestamp <= t

\* line 105: 1 if x <= time_window / 2 else 0.5, counted in halves
weight_strict(x, time_window) == IF 2 * x < time_window THEN 2 ELSE 1

weight(x, time_window) == IF 2 * x <= time_window THEN 2 ELSE 1

MinTimestamp(df) ==
    CHOOSE t \in {df[i].timestamp : i \in DOMAIN df} :
        \A i \in DOMAIN df : t <= df[i].timestamp

\* lines 103-108: the weighted mean of one (place, detector) group
weighted_mean_from_earliest(df, time_window) ==
    LET earliest == MinTimestamp(df)
        weights == [i \in DOMAIN df |-> weight(df[i].timestamp - earliest, time_window)]
    IN  Frac(Sum([i \in DOMAIN df |-> df[i].proxi * weights[i]]), Sum(weights))

weighted_mean(df, time_window) ==
    LET latest == MaxTimestamp(df)
        weights == [i \in DOMAIN df |-> weight(latest - df[i].timestamp, time_window)]
    IN  Frac(Sum([i \in DOMAIN df |-> df[i].proxi * weights[i]]), Sum(weights))

\* line 111: df["proxi"].mean()
mean(df) ==
    Frac(Sum([i \in DOMAIN df |-> df[i].proxi]), Len(df))

\* lines 95-98: the record before the groups are written to it
default_record_zero(label, ble_id, value_if_undetected) ==
    [k \in HEADER |->
        IF k = "label" THEN label
        ELSE IF k = "ble_id" THEN ble_id
        ELSE <<0, 1>>]

default_record(label, ble_id, value_if_undetected) ==
    [k \in HEADER |->
        IF k = "label" THEN label
        ELSE IF k = "ble_id" THEN ble_id
        ELSE value_if_undetected]

\* the rows of one group of windowed_df.groupby(["place", "detector"])
detector_group(windowed_df, g) ==
    SelectSeq(windowed_df, LAMBDA r : r.place = g[1] /\ r.detector = g[2])

\* lines 87-112: a dict; every (place, detector) group of the window writes
\* its key, whether the catalog has that key or not
create_record(windowed_df, label, ble_id, time_window, value_if_undetected, weighted_average) ==
    LET record == default_record(label, ble_id, value_if_undetected)
        groups == {<<windowed_df[i].place, windowed_df[i].detector>> :
                      i \in DOMAIN windowed_df}
        written == {Key(g[1], g[2]) : g \in groups}
        groupOf(k) == CHOOSE g \in groups : Key(g[1], g[2]) = k
        value(k) == IF weighted_average
                    THEN weighted_mean(detector_group(windowed_df, groupOf(k)),
                                       time_window)
                    ELSE mean(detector_group(windowed_df, groupOf(k)))
    IN  [k \in DOMAIN record \cup written |->
            IF k \in written THEN value(k) ELSE record[k]]

\* line 145: result_df.loc[len(result_df)] = record aligns the dict to the
\* columns of result_df
append_row(record) == [k \in HEADER |-> record[k]]

\* line 129: sort_values("datetime") with the default quicksort, which is not
\* stable: every ascending order of the rows is a possible outcome
RECURSIVE SortedOrders(_, _)
SortedOrders(df, todo) ==
    IF todo = {} THEN {<<>>}
    ELSE LET first == {i \in todo :
                          \A j \in todo : df[i].timestamp <= df[j].timestamp}
         IN  UNION {{<<df[i]>> \o rest : rest \in SortedOrders(df, todo \ {i})} :
                       i \in first}

sort_values(df) == SortedOrders(df, DOMAIN df)

\* lines 132-134: rolling(f"{time_window}s", on="datetime"): the window of
\* row i is the rows up to i whose time is later than that of row i minus
\* time_window (closed on the right only)
rolling(df, time_window) ==
    [i \in DOMAIN df |->
        LET inside(j) == df[j].timestamp > df[i].timestamp - time_window
            start == CHOOSE j \in 1..i :
                        inside(j) /\ \A k \in 1..(j - 1) : ~inside(k)
        IN  SubSeq(df, start, i)]

\* line 135: the number of leading windows islice drops
skip_count_short == Len(Catalog) - 1

skip_count == Len(Catalog)

islice(iter, start) == SubSeq(iter, start + 1, Len(iter))

\* line 127
ble_id_filtered(ble_id, ble_ids_filter) ==
    ble_ids_filter.given /\ ble_id \notin ble_ids_filter.ids

\* lines 129-135 for one (label, ble_id) group
group_windows(grouped_df, time_window) ==
    islice(rolling(grouped_df, time_window), skip_count)

\* lines 126-147: the groups in ascending key order; sorted_df fixes the
\* order sort_values gives the rows of each group
RECURSIVE window_groups(_, _, _)
window_groups(sorted_df, todo, a) ==
    IF todo = {} THEN <<>>
    ELSE LET ble_id == CHOOSE b \in todo : \A c \in todo : b <= c
             grouped_df == SelectSeq(sorted_df, LAMBDA r : r.ble_id = ble_id)
             rest == window_groups(sorted_df, todo \ {ble_id}, a)
         IN  IF ble_id_filtered(ble_id, a.ble_ids_filter)
             THEN rest
             ELSE group_windows(grouped_df, a.time_window) \o rest

\* lines 175-178: one more row of the input files
ReadRow ==
    /\ wpc = "read"
    /\ Len(original_df) < MaxRows
    /\ \E r \in RowChoices : original_df' = Append(original_df, r)
    /\ UNCHANGED <<wpc, args, windows, created, result_df>>
    /\ UNCHANGED pollVars

\* lines 186-193: window_data over the rows read
WindowData ==
    /\ wpc = "read"
    /\ \E tw \in TimeWindows, boxcox \in BOOLEAN, wa \in BOOLEAN,
          f \in FilterChoices, sorted_df \in sort_values(original_df) :
          LET a == [time_window |-> tw,
                    value_if_undetected |->
                        IF boxcox THEN <<VALUE_IF_UNDETECTED_BOXCOX, 1>>
                        ELSE <<VALUE_IF_UNDETECTED, 1>>,
                    weighted_average |-> wa,
                    ble_ids_filter |-> f]
              ws == window_groups(sorted_df,
                        {original_df[i].ble_id : i \in DOMAIN original_df}, a)
              recs == [i \in DOMAIN ws |->
                         create_record(ws[i], ws[i][1].label, ws[i][1].ble_id,
                                       a.time_window, a.value_if_undetected,
                                       a.weighted_average)]
          IN  /\ args' = a
              /\ windows' = ws
              /\ created' = recs
              /\ result_df' = [i \in DOMAIN recs |-> append_row(recs[i])]
    /\ wpc' = "done"
    /\ UNCHANGED original_df
    /\ UNCHANGED pollVars

PollIdle ==
    /\ pc = "off"
    /\ update = FALSE
    /\ user_df = {}
    /\ prediction_dict = NoRows
    /\ beacon_status = NoRows
    /\ labels = {}
    /\ upserted = {}
    /\ deleted = {}
    /\ hist = [b \in Beacons |-> <<Silent, Silent, Silent>>]
    /\ silent_run = [b \in Beacons |-> -1]
    /\ deletes_since_seen = [b \in Beacons |-> 0]
    /\ prev_times = [b \in Beacons |-> 0]

WindowInit ==
    /\ wpc = "read"
    /\ original_df = <<>>
    /\ args = [time_window |-> 0]
    /\ windows = <<>>
    /\ created = <<>>
    /\ result_df = <<>>
    /\ PollIdle

WindowNext ==
    \/ ReadRow
    \/ WindowData

WindowSpec == WindowInit /\ [][WindowNext]_vars

\* ------------------------------------------------------------------------
\* Properties of the polling loop
\* ------------------------------------------------------------------------

\* C1: every upsert of (beacon b, place p) is run in a cycle in which b was
\* classified as p in that cycle and in the two cycles before it; a place
\* held for fewer than three consecutive cycles is never upserted.
C1_UpsertOnlyAfterThreeCycles ==
    \A u \in upserted : hist[u[1]] = <<u[2], u[2], u[2]>>

C1_Witness ==
    \E u \in upserted :
        /\ hist[u[1]] = <<u[2], u[2], u[2]>>
        /\ beacon_status[u[1]] = u[2]

\* C2: with --update, when a beacon of the accounts table was classified as
\* the same place p in three consecutive cycles, the persisted table maps it
\* to p at the end of the third cycle.
C2_ThreeCyclesPersist ==
    (update /\ pc = "sleep") =>
        \A b \in user_df : \A p \in Places :
            hist[b] = <<p, p, p>> =>
                (b \in DOMAIN beacon_status /\ beacon_status[b] = p)

C2_Witness ==
    /\ update
    /\ pc = "sleep"
    /\ \E b \in user_df : \E p \in Places :
          /\ hist[b] = <<p, p, p>>
          /\ beacon_status[b] = p

\* C3: a beacon that was classified and then stays silent gets exactly one
\* QUERY_FOR_DELETE: one by the end of its first silent cycle and no further
\* one in the silent cycles that follow.
C3_DeleteExactlyOnce ==
    \A b \in Beacons :
        /\ deletes_since_seen[b] <= 1
        /\ (update /\ pc = "sleep" /\ silent_run[b] >= 1) => deletes_since_seen[b] = 1

C3_Witness ==
    /\ update
    /\ pc = "sleep"
    /\ \E b \in Beacons : silent_run[b] = 2 /\ deletes_since_seen[b] = 1

\* C4 as stated: in the cycle in which a tracked beacon is not classified no
\* delete is run and its entry stays in prediction_dict.
C4_GraceCycle ==
    (update /\ pc = "sleep") =>
        \A b \in Beacons :
            (hist[b][2] # Silent /\ hist[b][3] = Silent) =>
                (b \notin deleted /\ b \in DOMAIN prediction_dict)

\* C4 amended: a tracked beacon that is not classified in a cycle is deleted
\* and popped in that same cycle, no delete is run for it in the silent cycles
\* after that, and a beacon classified again after one silent cycle gets a new
\* entry with times = 1.
C4_EvictedInSilentCycle ==
    (update /\ pc = "sleep") =>
        \A b \in Beacons :
            /\ (hist[b][2] # Silent /\ hist[b][3] = Silent) =>
                  (b \in deleted /\ b \notin DOMAIN prediction_dict)
            /\ (hist[b][2] = Silent /\ hist[b][3] = Silent) => b \notin deleted
            /\ (hist[b][2] = Silent /\ hist[b][3] # Silent) =>
                  (/\ b \in DOMAIN prediction_dict
                   /\ prediction_dict[b] = Prediction(hist[b][3], 1, TRUE))

C4_Witness ==
    /\ update
    /\ pc = "sleep"
    /\ \E b \in Beacons :
          /\ hist[b][1] # Silent
          /\ hist[b][2] # Silent
          /\ hist[b][3] = Silent
          /\ b \in deleted
          /\ b \notin DOMAIN prediction_dict
          /\ b \notin DOMAIN beacon_status

\* the length of the run of equal classifications that ends h
RunLength(h) ==
    IF h[2] # h[3] THEN 1 ELSE IF h[1] # h[2] THEN 2 ELSE 3

\* C10: a label that has rows but is not in the accounts table never gets an
\* entry, an upsert or a delete, the loop does not fail on it, and the entry
\* of every other beacon is what that beacon's own classifications make it.
C10_UnknownBeaconSkipped ==
    update =>
        /\ pc # "error"
        /\ \A b \in Beacons \ user_df :
              /\ b \notin DOMAIN prediction_dict
              /\ b \notin deleted
              /\ \A u \in upserted : u[1] # b
              /\ pc # "start" => b \notin DOMAIN beacon_status
        /\ pc \in {"persist", "sleep"} =>
              \A b \in user_df :
                 IF b \in labels
                 THEN /\ b \in DOMAIN prediction_dict
                      /\ prediction_dict[b] =
                            Prediction(hist[b][3], RunLength(hist[b]), TRUE)
                 ELSE b \in DOMAIN prediction_dict =>
                        (pc = "persist" /\ ~prediction_dict[b].flag)

C10_Witness ==
    /\ update
    /\ pc = "sleep"
    /\ \E b \in labels \ user_df : \E k \in labels \cap user_df :
          /\ b < k
          /\ <<k, hist[k][3]>> \in upserted
          /\ b \notin DOMAIN prediction_dict

\* C11: in a cycle, a beacon classified as p whose entry holds p gets
\* count min(3, count + 1) with the place unchanged, any other beacon
\* classified as p gets the entry (p, 1); both are marked seen; the count of
\* every entry is within 1..3.
C11_UpdateRule ==
    /\ [][(update /\ pc = "fetch") =>
            \A b \in Beacons :
                hist'[b][3] # Silent =>
                    /\ b \in DOMAIN prediction_dict'
                    /\ prediction_dict'[b].place = hist'[b][3]
                    /\ prediction_dict'[b].flag
                    /\ prediction_dict'[b].times =
                          IF b \in DOMAIN prediction_dict
                             /\ prediction_dict[b].place = hist'[b][3]
                          THEN IF prediction_dict[b].times + 1 <= 3
                               THEN prediction_dict[b].times + 1 ELSE 3
                          ELSE 1]_vars
    /\ [](\A b \in DOMAIN prediction_dict : prediction_dict[b].times \in 1..3)

C11_Witness ==
    /\ update
    /\ pc = "persist"
    /\ \E b, c \in DOMAIN prediction_dict :
          /\ prediction_dict[b] = Prediction(hist[b][3], 3, TRUE)
          /\ hist[c][2] # Silent
          /\ hist[c][2] # hist[c][3]
          /\ prediction_dict[c] = Prediction(hist[c][3], 1, TRUE)

\* C12 as stated: a cycle runs an upsert for a beacon only if the count of
\* that beacon reached 3 in that cycle from a lower value.
C12_UpsertOnTransition ==
    \A u \in upserted : prev_times[u[1]] < 3

\* C12 amended: a cycle runs the upsert of (b, p) exactly when b was
\* classified in that cycle and its entry holds p with count 3, whether the
\* count came from 2 in that cycle or was already 3.
C12_UpsertWhileConfirmed ==
    (update /\ pc = "sleep") =>
        \A b \in Beacons :
            /\ \A p \in Places :
                  <<b, p>> \in upserted <=>
                      (/\ b \in DOMAIN prediction_dict
                       /\ prediction_dict[b] = Prediction(p, 3, TRUE)
                       /\ hist[b][3] = p)
            /\ (\E u \in upserted : u[1] = b) => prev_times[b] \in {2, 3}

C12_Witness ==
    /\ update
    /\ pc = "sleep"
    /\ \E b \in Beacons :
          /\ prev_times[b] = 3
          /\ <<b, hist[b][3]>> \in upserted
          /\ beacon_status[b] = hist[b][3]

\* C14: without --update every polling cycle runs to completion: the loop
\* never reaches an error and runs no upsert and no delete.
C14_NoUpdateRuns ==
    ~update => (pc # "error" /\ upserted = {} /\ deleted = {})

\* C15: with --update, at the end of every cycle every beacon with a row in
\* beacon_status has an entry in prediction_dict, and every entry left in
\* prediction_dict was classified in that cycle.
C15_PersistedSubsetOfLocal ==
    (update /\ pc = "sleep") =>
        /\ DOMAIN beacon_status \subseteq DOMAIN prediction_dict
        /\ \A b \in DOMAIN prediction_dict :
              /\ prediction_dict[b].flag
              /\ hist[b][3] = prediction_dict[b].place

C15_Witness ==
    /\ update
    /\ pc = "sleep"
    /\ beacon_status # NoRows
    /\ DOMAIN beacon_status \subseteq DOMAIN prediction_dict
    /\ \E b \in deleted :
          /\ b \notin DOMAIN beacon_status
          /\ b \notin DOMAIN prediction_dict

\* C16: in a cycle in which a beacon with the persisted place p is classified
\* as another place q that has not been its classification for three
\* consecutive cycles, its row is neither deleted nor overwritten; a row
\* changes only to a place classified for three consecutive cycles, or is
\* removed in a cycle in which the beacon is silent.
C16_RowKeptOnChange ==
    [][(update /\ pc # "start") =>
          \A b \in DOMAIN beacon_status :
             LET p == beacon_status[b]
                 q == hist[b][3]
             IN  /\ (pc = "persist" /\ q # Silent /\ q # p /\ hist[b] # <<q, q, q>>) =>
                       /\ b \in DOMAIN beacon_status'
                       /\ beacon_status'[b] = p
                       /\ b \notin deleted'
                       /\ \A u \in upserted' : u[1] # b
                 /\ (b \in DOMAIN beacon_status' /\ beacon_status'[b] # p) =>
                       /\ pc = "persist"
                       /\ hist[b] = <<q, q, q>>
                       /\ beacon_status'[b] = q
                 /\ b \notin DOMAIN beacon_status' =>
                       /\ pc = "persist"
                       /\ q = Silent
                       /\ b \in deleted']_vars

C16_Witness ==
    /\ update
    /\ pc = "sleep"
    /\ \E b \in DOMAIN beacon_status :
          /\ hist[b][3] # Silent
          /\ hist[b][3] # beacon_status[b]
          /\ hist[b][2] = hist[b][3]
          /\ b \notin deleted

\* ------------------------------------------------------------------------
\* Properties of the window aggregator
\* ------------------------------------------------------------------------

\* the keys of a record that hold feature values
FeatureKeys(record) == DOMAIN record \ {"label", "ble_id"}

\* the timestamp of the row a window was made for: its last row
WindowEnd(windowed_df) == windowed_df[Len(windowed_df)].timestamp

Count(df, r) == Cardinality({i \in DOMAIN df : df[i] = r})

RowsOf(ble_id) == SelectSeq(original_df, LAMBDA r : r.ble_id = ble_id)

\* C5: every record create_record returns has exactly |catalog| feature
\* values, one per catalog entry and no others, also when the window holds
\* rows of a (place, detector) pair that is not in the catalog.
C5_RecordWidth ==
    \A i \in DOMAIN created :
        /\ FeatureKeys(created[i]) = CatalogKeys
        /\ Cardinality(FeatureKeys(created[i])) = Len(Catalog)

\* C6: a beacon with n rows gets no record when n < |catalog| and exactly
\* n - |catalog| records when n >= |catalog|, in ascending order of the
\* window end timestamp.
C6_WarmUpCount ==
    wpc = "done" =>
        /\ Len(result_df) = Len(windows)
        /\ \A b \in {original_df[i].ble_id : i \in DOMAIN original_df} :
              LET n == Len(RowsOf(b))
                  emitted == {i \in DOMAIN result_df : result_df[i].ble_id = b}
              IN  IF args.ble_ids_filter.given /\ b \notin args.ble_ids_filter.ids
                  THEN emitted = {}
                  ELSE /\ Cardinality(emitted) =
                             IF n < Len(Catalog) THEN 0 ELSE n - Len(Catalog)
                       /\ \A i, j \in emitted :
                             i < j => WindowEnd(windows[i]) <= WindowEnd(windows[j])

C6_Witness ==
    /\ wpc = "done"
    /\ Len(RowsOf(1)) = Len(Catalog) + 1
    /\ Len(RowsOf(2)) = Len(Catalog) - 1
    /\ ~args.ble_ids_filter.given
    /\ Len(result_df) = 1
    /\ result_df[1].ble_id = 1

\* C7: a catalog entry with no row in the window holds the sentinel that was
\* passed to create_record; an entry with rows in the window holds a value
\* between the least and the greatest proximity of those rows, not the
\* sentinel.
C7_Sentinel ==
    \A i \in DOMAIN created : \A c \in DOMAIN Catalog :
        LET k == Key(Catalog[c][1], Catalog[c][2])
            rows == {j \in DOMAIN windows[i] :
                        /\ windows[i][j].place = Catalog[c][1]
                        /\ windows[i][j].detector = Catalog[c][2]}
            v == created[i][k]
        IN  IF rows = {}
            THEN /\ v = args.value_if_undetected
                 /\ result_df[i][k] = args.value_if_undetected
            ELSE /\ v # args.value_if_undetected
                 /\ result_df[i][k] = v
                 /\ \A j \in rows : \E lo, hi \in rows :
                       /\ windows[i][lo].proxi <= windows[i][j].proxi
                       /\ windows[i][j].proxi <= windows[i][hi].proxi
                       /\ windows[i][lo].proxi * v[2] <= v[1]
                       /\ v[1] <= windows[i][hi].proxi * v[2]

C7_Witness ==
    /\ wpc = "done"
    /\ \E i, j \in DOMAIN created :
          LET k == Key(Catalog[1][1], Catalog[1][2])
          IN  /\ \A n \in DOMAIN windows[i] : windows[i][n].place # Catalog[1][1]
              /\ created[i][k] = args.value_if_undetected
              /\ \E n \in DOMAIN windows[j] : windows[j][n].place = Catalog[1][1]
              /\ created[j][k] # args.value_if_undetected

\* C8: the window made for a row at timestamp t holds exactly the rows of
\* that beacon whose timestamp lies in [t - time_window, t].
C8_ClosedWindow ==
    \A i \in DOMAIN windows :
        LET t == WindowEnd(windows[i])
            group == RowsOf(windows[i][1].ble_id)
        IN  \A r \in RowChoices :
                Count(windows[i], r) =
                    IF t - args.time_window <= r.timestamp /\ r.timestamp <= t
                    THEN Count(group, r)
                    ELSE 0

\* C9: for a window all of whose rows lie within time_window / 2 of its
\* latest timestamp, the weighted-mean record equals the simple-mean record.
C9_WeightedEqualsSimple ==
    \A i \in DOMAIN windows :
        LET w == windows[i]
            latest == MaxTimestamp(w)
            record(weighted_average) ==
                create_record(w, w[1].label, w[1].ble_id, args.time_window,
                              args.value_if_undetected, weighted_average)
        IN  (\A j \in DOMAIN w : 2 * (latest - w[j].timestamp) <= args.time_window) =>
                /\ record(TRUE) = record(FALSE)
                /\ created[i] = record(~args.weighted_average)

C9_Witness ==
    /\ wpc = "done"
    /\ args.weighted_average
    /\ \E i \in DOMAIN windows :
          LET w == windows[i]
              latest == MaxTimestamp(w)
          IN  /\ \A j \in DOMAIN w : 2 * (latest - w[j].timestamp) <= args.time_window
              /\ \E j, k \in DOMAIN w :
                    /\ w[j].place = w[k].place
                    /\ w[j].detector = w[k].detector
                    /\ w[j].proxi # w[k].proxi
                    /\ 2 * (w[k].timestamp - w[j].timestamp) = args.time_window

\* C13: under the weighted-mean policy the value of every (place, detector)
\* group of a window is sum(w * proxi) / sum(w) over the rows of the group,
\* with w = 1 for a row at most time_window / 2 before the latest row of that
\* group and w = 0.5 for an older one (here in halves: 2 and 1).
C13_WeightedMean ==
    (wpc = "done" /\ args.weighted_average) =>
        \A i \in DOMAIN windows : \A n \in DOMAIN windows[i] :
            LET place == windows[i][n].place
                detector == windows[i][n].detector
                group == SelectSeq(windows[i],
                            LAMBDA r : r.place = place /\ r.detector = detector)
                latest == CHOOSE t \in {group[j].timestamp : j \in DOMAIN group} :
                            \A j \in DOMAIN group : group[j].timestamp <= t
                w == [j \in DOMAIN group |->
                        IF 2 * (latest - group[j].timestamp) <= args.time_window
                        THEN 2 ELSE 1]
                v == created[i][Key(place, detector)]
            IN  /\ v[2] > 0
                /\ v[1] * Sum(w) = v[2] * Sum([j \in DOMAIN group |-> group[j].proxi * w[j]])

\* a window whose end is later than the latest row of a group, with a row of
\* that group more than time_window / 2 before the window end but not before
\* the group's latest; and a window with a row weighted 0.5
C13_Witness ==
    /\ wpc = "done"
    /\ args.weighted_average
    /\ \E i \in DOMAIN windows : \E n, m \in DOMAIN windows[i] :
          /\ windows[i][n].place = windows[i][m].place
          /\ windows[i][n].detector = windows[i][m].detector
          /\ windows[i][n].proxi # windows[i][m].proxi
          /\ \A k \in DOMAIN windows[i] :
                (windows[i][k].place = windows[i][n].place
                 /\ windows[i][k].detector = windows[i][n].detector)
                    => windows[i][k].timestamp <= windows[i][m].timestamp
          /\ windows[i][m].timestamp < WindowEnd(windows[i])
          /\ 2 * (WindowEnd(windows[i]) - windows[i][n].timestamp) > args.time_window
          /\ 2 * (windows[i][m].timestamp - windows[i][n].timestamp) <= args.time_window
    /\ \E i \in DOMAIN windows : \E n, m \in DOMAIN windows[i] :
          /\ windows[i][n].place = windows[i][m].place
          /\ windows[i][n].detector = windows[i][m].detector
          /\ 2 * (windows[i][m].timestamp - windows[i][n].timestamp) > args.time_window
          /\ created[i][Key(windows[i][n].place, windows[i][n].detector)]
                # mean(detector_group(windows[i],
                        <<windows[i][n].place, windows[i][n].detector>>))

=============================================================================
